---- MODULE Spec2Model ----
(***************************************************************************)
(* Model of the RunPod OCR worker of src/handler.py: the module-level      *)
(* model handle, load_model, process_pdf, process_image_with_model and     *)
(* handler, driven by the serverless runtime that hands jobs to handler.   *)
(*                                                                         *)
(* Python values are modelled as follows.  A str is a TLA+ string.  A      *)
(* mapping is a function whose domain is its set of keys.  A call that may *)
(* raise yields a record [exc |-> TRUE, msg |-> str(e)] or                 *)
(* [exc |-> FALSE, val |-> value].  The outcomes of the external           *)
(* libraries (transformers, PIL, PyMuPDF, pytesseract) that the code       *)
(* cannot control are drawn nondeterministically in the actions.           *)
(***************************************************************************)
EXTENDS Integers, Sequences, FiniteSets, TLC

\* ------------------------------------------------------------------ bounds

\* Largest number of pages of a PDF document submitted in a job.
MaxPages == 2

\* --------------------------------------------------------- program constants

\* process_pdf: a page whose stripped text is shorter than this is OCRed.
OcrThreshold == 50

\* ------------------------------------------------------------ Python helpers

Ok(v) == [exc |-> FALSE, val |-> v]

Raise(m) == [exc |-> TRUE, msg |-> m]

\* The characters str.strip() removes.
Whitespace == {" ", "\n", "\t", "\r"}

\* The number of leading characters of s that str.strip() removes.
LeadingWs(s) ==
  Cardinality({ i \in 1..Len(s) : \A j \in 1..i : SubSeq(s, j, j) \in Whitespace })

\* The number of trailing characters of s that str.strip() removes.
TrailingWs(s) ==
  Cardinality({ i \in 1..Len(s) : \A j \in 0..(Len(s) - i) :
                  SubSeq(s, Len(s) - j, Len(s) - j) \in Whitespace })

\* str.strip(): s without its leading and trailing whitespace.
Strip(s) ==
  IF LeadingWs(s) = Len(s) THEN ""
  ELSE SubSeq(s, LeadingWs(s) + 1, Len(s) - TrailingWs(s))

\* The positions at which sub occurs in s.
Matches(s, sub) ==
  { i \in 1..(Len(s) - Len(sub) + 1) : SubSeq(s, i, i + Len(sub) - 1) = sub }

\* The occurrences among M (positions of a string of length n) that a
\* left-to-right scan counts from position `from` on, none overlapping.
RECURSIVE CountFrom(_, _, _)
CountFrom(M, n, from) ==
  LET rest == { i \in M : i >= from }
      first == CHOOSE i \in rest : \A j \in rest : i <= j
  IN  IF rest = {} THEN 0 ELSE 1 + CountFrom(rest, n, first + n)

\* str.count(sub) for a non-empty sub: the number of non-overlapping
\* occurrences of sub in s.
Count(s, sub) == CountFrom(Matches(s, sub), Len(sub), 1)

\* sep.join(parts)
RECURSIVE Join(_, _)
Join(sep, parts) ==
  IF Len(parts) = 0 THEN ""
  ELSE IF Len(parts) = 1 THEN parts[1]
  ELSE parts[1] \o sep \o Join(sep, Tail(parts))

\* n copies of the string c
RECURSIVE Rep(_, _)
Rep(c, n) == IF n = 0 THEN "" ELSE c \o Rep(c, n - 1)

\* ------------------------------------------------------------------- inputs

\* Decoded images: what Image.open yields (identity, size, mode).
Img1 == [id |-> "img1", size |-> <<640, 480>>, mode |-> "RGB"]

Img2 == [id |-> "img2", size |-> <<32, 16>>, mode |-> "L"]

\* Embedded text layers of PDF pages: blank, 49 characters and 50
\* characters once stripped (the last two are longer before stripping).
BlankText == " \n"

Text49 == "  Page " \o Rep("a", 44) \o "\n"

Text50 == " " \o Rep("b", 50) \o "\n"

PageTexts == {BlankText, Text49, Text50}

\* A PDF document: the text layer of each page, and the number of the page
\* whose object is corrupt (loading it raises), 0 when no page is.
Docs ==
  UNION { { [pages |-> p, bad |-> b] : p \in [1..n -> PageTexts], b \in {0, n} } :
          n \in 0..MaxPages }

\* Byte strings a base64 value can decode to.
PngBytes(img) == [kind |-> "png", img |-> img]

PdfBytes(doc) == [kind |-> "pdf", doc |-> doc]

JunkBytes == [kind |-> "junk"]

\* A base64 string: whether its padding is correct once the characters
\* outside the alphabet are discarded, whether it has only alphabet
\* characters, and the bytes the alphabet characters encode.
B64(padded, clean, bytes) == [padded |-> padded, clean |-> clean, bytes |-> bytes]

\* Strings that are not valid base64.
BadPadding == B64(FALSE, TRUE, JunkBytes)

StrayJunk == B64(TRUE, FALSE, JunkBytes)

StrayImg1 == B64(TRUE, FALSE, PngBytes(Img1))

ImageValues ==
  {BadPadding, StrayJunk, StrayImg1, B64(TRUE, TRUE, JunkBytes),
   B64(TRUE, TRUE, PngBytes(Img1)), B64(TRUE, TRUE, PngBytes(Img2))}

PdfValues ==
  {BadPadding, StrayJunk, B64(TRUE, TRUE, JunkBytes)}
    \cup { B64(TRUE, TRUE, PdfBytes(d)) : d \in Docs }

Prompts == {"", "hi"}

\* Values of job["input"] that are not mappings: None, and strings.
PyNone == [py |-> "None"]

PyStr(s) == [py |-> "str", s |-> s]

StrInputs == {PyStr("prompt"), PyStr("a pdf image"), PyStr("x")}

MkInput(K, p, i, d) ==
  [k \in K |-> IF k = "prompt" THEN p ELSE IF k = "image" THEN i ELSE d]

\* The values a job that carries 'pdf' together with other keys is tried with.
MixedImageValues == {BadPadding, StrayImg1, B64(TRUE, TRUE, PngBytes(Img2))}

MixedPdfValues ==
  {BadPadding, B64(TRUE, TRUE, JunkBytes),
   B64(TRUE, TRUE, PdfBytes([pages |-> <<Text50>>, bad |-> 0])),
   B64(TRUE, TRUE, PdfBytes([pages |-> <<BlankText>>, bad |-> 0]))}

\* The mappings under "input": every combination of 'prompt' and 'image',
\* every 'pdf' value alone, and 'pdf' next to the other keys.
Inputs ==
  { MkInput(K, p, i, BadPadding) :
      K \in SUBSET {"prompt", "image"}, p \in Prompts, i \in ImageValues }
    \cup { MkInput({"pdf"}, "hi", BadPadding, d) : d \in PdfValues }
    \cup { MkInput(K \cup {"pdf"}, "hi", i, d) :
             K \in (SUBSET {"prompt", "image"}) \ {{}},
             i \in MixedImageValues, d \in MixedPdfValues }

\* Jobs the runtime hands to handler: with a mapping, None or a string
\* under "input", and with no "input" key.
Jobs ==
  { [id |-> "job", input |-> inp] : inp \in Inputs \cup {PyNone} \cup StrInputs }
    \cup { [id |-> "job"] }

\* --------------------------------------------------------------- load_model

\* The module-level handle before any load (model = None).
NoModel == [kind |-> "None", id |-> 0]

\* Python truthiness of the handle (`if model:`), None being falsy.
Truthy(m) == m # NoModel

\* Outcomes of the calls load_model makes into transformers: whether each
\* from_pretrained call and model.eval() succeeds.
AllLoadOutcomes ==
  [tok : BOOLEAN, mod : BOOLEAN, eval : BOOLEAN, proc : BOOLEAN, mod2 : BOOLEAN]

\* One scenario for each way load_model can run: the flag of a call that
\* is not reached is TRUE.
LoadScenarios ==
  { sc \in AllLoadOutcomes :
      /\ ~sc.tok => sc.mod /\ sc.eval
      /\ ~sc.mod => sc.eval
      /\ (sc.tok /\ sc.mod /\ sc.eval) => sc.proc /\ sc.mod2
      /\ ~sc.proc => sc.mod2 }

AllSucceed == [tok |-> TRUE, mod |-> TRUE, eval |-> TRUE, proc |-> TRUE, mod2 |-> TRUE]

\* The fallback of load_model's except branch (TrOCR).  g is the state the
\* primary attempt left: handle, tokenizer, instances created, calls made.
LoadSecondary(g, sc) ==
  LET a1 == Append(g.attempts, "TrOCRProcessor")
      a2 == Append(a1, "VisionEncoderDecoderModel")
  IN  IF ~sc.proc THEN [g EXCEPT !.attempts = a1, !.ret = FALSE]
      ELSE IF ~sc.mod2 THEN [g EXCEPT !.attempts = a2, !.ret = FALSE]
      ELSE [model |-> [kind |-> "TrOCR", id |-> g.loads + 1],
            tokenizer |-> "TrOCRProcessor",
            loads |-> g.loads + 1,
            attempts |-> a2,
            ret |-> TRUE]

\* The try branch of load_model (GOT-OCR2_0), falling into LoadSecondary on
\* an exception.
LoadPrimary(g, sc) ==
  LET a1 == Append(g.attempts, "AutoTokenizer")
      a2 == Append(a1, "AutoModel")
      g1 == [g EXCEPT !.attempts = a1]
      g2 == [g EXCEPT !.attempts = a2, !.tokenizer = "GOTTokenizer"]
      g3 == [g2 EXCEPT !.model = [kind |-> "GOT", id |-> g.loads + 1],
                       !.loads = g.loads + 1]
  IN  IF ~sc.tok THEN LoadSecondary(g1, sc)
      ELSE IF ~sc.mod THEN LoadSecondary(g2, sc)
      ELSE IF ~sc.eval THEN LoadSecondary(g3, sc)
      ELSE [g3 EXCEPT !.ret = TRUE]

\* A load_model without its guard: every call loads.
NeedsLoad_Always(m) == TRUE

\* A guard that asks for the primary model: a load is attempted until the
\* handle holds it.
NeedsLoad_UntilPrimary(m) == m.kind # "GOT"

\* The guard of load_model: a load is attempted only while the handle is None.
NeedsLoad(m) == m = NoModel

\* load_model(): the globals after the call, its return value and the
\* from_pretrained calls it made.
load_model(m, t, n, sc) ==
  LET g == [model |-> m, tokenizer |-> t, loads |-> n, attempts |-> <<>>,
            ret |-> TRUE]
  IN  IF NeedsLoad(m) THEN LoadPrimary(g, sc) ELSE g

\* ------------------------------------------------ process_image_with_model

\* Outcomes of one inference: the stage at which it raises ("ok": none;
\* "write": image.save, while writing the file; "infer": the model call)
\* and whether the pytesseract fallback succeeds.
InferOutcomes ==
  { [stage |-> "ok", tess |-> TRUE] }
    \cup [stage : {"write", "infer"}, tess : BOOLEAN]

\* The content of /tmp/temp_image.png: no file, a partly written file, or
\* the image saved there.
NoFile == [id |-> "absent"]

PartialFile == [id |-> "partial"]

\* hasattr(model, 'chat'): the GOT-OCR2_0 remote code defines chat.
HasChat(m) == m.kind = "GOT"

\* An inference that is given the in-memory image on every branch.
Recognize_InMemory(m, file, image) ==
  IF HasChat(m) THEN "got:" \o image.id ELSE "trocr:" \o image.id

\* The text the loaded model recognises: model.chat reads the file at
\* temp_path, the other branches read the in-memory image.
Recognize(m, file, image) ==
  IF HasChat(m) THEN "got:" \o file.id ELSE "trocr:" \o image.id

InferError(stage) ==
  IF stage = "write" THEN "cannot write /tmp/temp_image.png"
  ELSE "inference failed"

\* The except branch of process_image_with_model: pytesseract on the image.
BasicOcr(image, o) ==
  IF o.tess THEN "Basic OCR: " \o ("tess:" \o image.id)
  ELSE "OCR failed: " \o InferError(o.stage)

\* process_image_with_model(image): the returned text, the file left at
\* temp_path, whether the model was run, and how the call ended ("skipped":
\* no model; "model": the model's text; "fallback": pytesseract's text;
\* "failed": both raised).
process_image_with_model(m, file, image, o) ==
  IF m = NoModel
  THEN [text |-> "Model not loaded", file |-> file, ran |-> FALSE, how |-> "skipped"]
  ELSE IF o.stage = "ok"
  THEN [text |-> Recognize(m, image, image), file |-> image, ran |-> TRUE,
        how |-> "model"]
  ELSE [text |-> BasicOcr(image, o),
        file |-> IF o.stage = "write" THEN PartialFile ELSE image,
        ran |-> o.stage = "infer",
        how |-> IF o.tess THEN "fallback" ELSE "failed"]

\* ----------------------------------------------------------------- process_pdf

\* fitz.open(stream=pdf_bytes, filetype="pdf")
FitzOpen(bytes) ==
  IF bytes.kind = "pdf" THEN Ok(bytes.doc) ELSE Raise("Failed to open stream")

\* page.get_pixmap(matrix=fitz.Matrix(2, 2)) opened as an image: the page
\* rendered at twice its size.
RenderPage(k) ==
  [id |-> "page" \o ToString(k), size |-> <<1224, 1584>>, mode |-> "RGB"]

\* The elements process_pdf appends to all_text.
TextEntry(k, text) == [page |-> k, kind |-> "text", body |-> text]

OcrEntry(k, text) == [page |-> k, kind |-> "ocr", body |-> text]

\* The string an element of all_text is.
EntryStr(e) ==
  IF e.kind = "text"
  THEN "Page " \o ToString(e.page) \o " (Text Layer):\n" \o e.body
  ELSE "Page " \o ToString(e.page) \o " (OCR):\n" \o e.body

\* text.strip() for the page texts, computed once for each of them.
Stripped == [t \in PageTexts |-> Strip(t)]

\* Whether process_pdf appends the text layer of a page (line 72).
HasTextLayer(text) == Stripped[text] # ""

\* OCR only for a page with no text at all.
NeedsOcr_EmptyOnly(text) == Stripped[text] = ""

\* OCR also for a page of exactly OcrThreshold characters.
NeedsOcr_Inclusive(text) ==
  Stripped[text] = "" \/ Len(Stripped[text]) <= OcrThreshold

\* Whether process_pdf renders a page for OCR (line 76).
NeedsOcr(text) == Stripped[text] = "" \/ Len(Stripped[text]) < OcrThreshold

\* One iteration of the page loop of process_pdf, on page k.  acc holds
\* all_text, the images handed to process_image_with_model so far and how
\* each call ended, the file at temp_path and whether the model was run.
PdfPage(m, doc, k, acc, outs) ==
  LET text == doc.pages[k]
      a1 == IF HasTextLayer(text)
            THEN [acc EXCEPT !.all_text = Append(@, TextEntry(k, text))]
            ELSE acc
      image == RenderPage(k)
      r == process_image_with_model(m, a1.file, image, outs[Len(a1.calls) + 1])
  IN  IF NeedsOcr(text) /\ Truthy(m)
      THEN [all_text |-> Append(a1.all_text, OcrEntry(k, r.text)),
            calls |-> Append(a1.calls, image),
            hows |-> Append(a1.hows, r.how),
            file |-> r.file,
            ran |-> a1.ran \/ r.ran,
            exc |-> FALSE]
      ELSE a1

\* The page loop of process_pdf from page k on; exc is set when loading a
\* page raises.
RECURSIVE PdfPages(_, _, _, _, _)
PdfPages(m, doc, k, acc, outs) ==
  IF k > Len(doc.pages) THEN acc
  ELSE IF doc.bad = k THEN [acc EXCEPT !.exc = TRUE]
  ELSE PdfPages(m, doc, k + 1, PdfPage(m, doc, k, acc, outs), outs)

\* process_pdf(pdf_bytes): the returned string, with all_text as it stood at
\* the return, the images it handed to process_image_with_model and the file
\* it left at temp_path.
process_pdf(m, file, bytes, outs) ==
  LET acc0 == [all_text |-> <<>>, calls |-> <<>>, hows |-> <<>>, file |-> file,
               ran |-> FALSE, exc |-> FALSE]
      opened == FitzOpen(bytes)
      acc == PdfPages(m, opened.val, 1, acc0, outs)
      joined == Join("\n\n", [i \in 1..Len(acc.all_text) |-> EntryStr(acc.all_text[i])])
  IN  IF opened.exc
      THEN [acc0 EXCEPT !.exc = TRUE] @@ [ret |-> "Error processing PDF: " \o opened.msg]
      ELSE IF acc.exc
      THEN acc @@ [ret |-> "Error processing PDF: " \o "bad page object"]
      ELSE acc @@ [ret |-> joined]

\* --------------------------------------------------------------------- handler

\* base64.b64decode(s): characters outside the alphabet are discarded, then
\* the padding is checked.
b64decode(s) ==
  IF s.padded THEN Ok(s.bytes) ELSE Raise("Incorrect padding")

\* Image.open(io.BytesIO(image_bytes))
ImageOpen(bytes) ==
  IF bytes.kind = "png" THEN Ok(bytes.img) ELSE Raise("cannot identify image file")

\* job.get("input", {})
JobInput(job) == IF "input" \in DOMAIN job THEN job.input ELSE <<>>

IsMapping(inp) == "py" \notin DOMAIN inp

IsStr(inp) == ~IsMapping(inp) /\ inp.py = "str"

\* `key in job_input`, for a job_input on which `in` does not raise: key
\* membership for a mapping, substring search for a string.
Has(inp, key) ==
  IF IsStr(inp) THEN Matches(inp.s, key) # {} ELSE key \in DOMAIN inp

\* job_input[key], for a key that `in` found: a string cannot be indexed
\* by a string.
Subscript(inp, key) ==
  IF IsStr(inp) THEN Raise("string indices must be integers") ELSE Ok(inp[key])

\* An echo test on the truth of the prompt instead of its presence.
IsEcho_Truthy(inp) ==
  /\ Has(inp, "prompt") /\ ~Has(inp, "image") /\ ~Has(inp, "pdf")
  /\ (IsMapping(inp) => inp.prompt # "")

\* An echo test that looks at 'prompt' alone.
IsEcho_AnyPrompt(inp) == Has(inp, "prompt")

\* The test of the echo branch (line 140).
IsEcho(inp) == Has(inp, "prompt") /\ ~Has(inp, "image") /\ ~Has(inp, "pdf")

\* What a call leaves when it touches neither the globals nor the disk.
Untouched(m, t, n, file) ==
  [model |-> m, tokenizer |-> t, loads |-> n, file |-> file,
   loadCalled |-> FALSE, model_loaded |-> FALSE, attempts |-> <<>>,
   calls |-> <<>>, hows |-> <<>>, all_text |-> <<>>, ran |-> FALSE]

Return(st, mapping) == st @@ [exc |-> FALSE, value |-> mapping]

Throw(st, m) == st @@ [exc |-> TRUE, msg |-> m]

\* The 'model_used' field of an image result (line 182).
ImageModelUsed(m) == IF Truthy(m) THEN "GOT-OCR2" ELSE "TrOCR"

\* The 'model_used' field of a PDF result (line 160).
PdfModelUsed(model_loaded) ==
  IF model_loaded THEN "GOT-OCR2" ELSE "PyMuPDF text extraction"

\* The PDF branch of handler (lines 149-165), after load_model left st.
HandlePdf(st, inp, outs) ==
  LET arg == Subscript(inp, "pdf")
      dec == b64decode(arg.val)
      r == process_pdf(st.model, st.file, dec.val, outs)
      st1 == [st EXCEPT !.file = r.file, !.calls = r.calls, !.hows = r.hows,
                        !.all_text = r.all_text, !.ran = r.ran]
  IN  IF arg.exc
      THEN Return(st, [error |-> "PDF processing error: " \o arg.msg])
      ELSE IF dec.exc
      THEN Return(st, [error |-> "PDF processing error: " \o dec.msg])
      ELSE Return(st1, [output |->
                          [type |-> "pdf",
                           text |-> r.ret,
                           pages |-> Count(r.ret, "Page "),
                           model_used |-> PdfModelUsed(st.model_loaded)]])

\* The test of process_pdf (`if model:`) used in the image branch.
UseModel_Handle(st) == Truthy(st.model)

\* The test that sends an image to the model (line 175): the value
\* load_model returned to this call.
UseModel(st) == st.model_loaded

\* The image branch of handler (lines 168-198), after load_model left st.
HandleImage(st, inp, outs) ==
  LET arg == Subscript(inp, "image")
      dec == b64decode(arg.val)
      opened == ImageOpen(dec.val)
      image == opened.val
      r == process_image_with_model(st.model, st.file, image, outs[1])
      st1 == [st EXCEPT !.file = r.file, !.calls = <<image>>, !.hows = <<r.how>>,
                        !.ran = r.ran]
  IN  IF arg.exc
      THEN Return(st, [error |-> "Error processing image: " \o arg.msg])
      ELSE IF dec.exc
      THEN Return(st, [error |-> "Error processing image: " \o dec.msg])
      ELSE IF opened.exc
      THEN Return(st, [error |-> "Error processing image: " \o opened.msg])
      ELSE IF UseModel(st)
      THEN Return(st1, [output |->
                          [type |-> "image",
                           text |-> r.text,
                           image_size |-> image.size,
                           model_used |-> ImageModelUsed(st.model)]])
      ELSE Return(st, [output |->
                         [type |-> "image",
                          message |-> "Model still loading, returning image info only",
                          image_size |-> image.size,
                          image_mode |-> image.mode]])

\* The body of handler's try block (lines 137-201): the value returned or
\* the exception raised, with the globals and the disk as the call left them.
HandlerBody(job, m, t, n, file, sc, outs) ==
  LET inp == JobInput(job)
      prompt == Subscript(inp, "prompt")
      st0 == Untouched(m, t, n, file)
      ld == load_model(m, t, n, sc)
      st == [st0 EXCEPT !.model = ld.model, !.tokenizer = ld.tokenizer,
                        !.loads = ld.loads, !.loadCalled = TRUE,
                        !.model_loaded = ld.ret, !.attempts = ld.attempts]
  IN  IF inp = PyNone
      THEN Throw(st0, "argument of type 'NoneType' is not iterable")
      ELSE IF IsEcho(inp)
      THEN IF prompt.exc THEN Throw(st0, prompt.msg)
           ELSE Return(st0, [output |-> "Echo test: " \o prompt.val])
      ELSE IF Has(inp, "pdf") THEN HandlePdf(st, inp, outs)
      ELSE IF Has(inp, "image") THEN HandleImage(st, inp, outs)
      ELSE Return(st, [output |-> "Handler ready. Send 'image' or 'pdf' in base64 format."])

\* handler without its outermost except.
handler_unguarded(job, m, t, n, file, sc, outs) ==
  HandlerBody(job, m, t, n, file, sc, outs)

\* handler(job): the outermost except turns an exception of the body into
\* an {error} mapping.
handler(job, m, t, n, file, sc, outs) ==
  LET b == HandlerBody(job, m, t, n, file, sc, outs)
  IN  IF b.exc
      THEN [b EXCEPT !.exc = FALSE] @@ [value |-> [error |-> "Handler error: " \o b.msg]]
      ELSE b

\* ------------------------------------------------------------- state machine

VARIABLES
  model,        \* the module-level model handle
  tokenizer,    \* the module-level tokenizer / processor
  loads,        \* model instances created in this process so far
  tempFile,     \* the content of /tmp/temp_image.png
  pc,           \* the worker: "idle", "running" (handler entered), "done"
  job,          \* the job handed to handler
  result,       \* the mapping handler returned
  escaped,      \* an exception left handler
  obs,          \* what the last handler call did (see ObsFields)
  modelBefore,  \* the model handle when the last handler call began
  loadedBefore, \* load_model had been called before the last handler call
  threads,      \* concurrent handler invocations: each one's position and locals
  hist          \* what has happened among the concurrent invocations so far

vars ==
  <<model, tokenizer, loads, tempFile, pc, job, result, escaped, obs,
    modelBefore, loadedBefore, threads, hist>>

NoJob == [id |-> "none"]

NoResult == <<>>

\* The fields of a handler call's outcome that obs records: whether
\* load_model was called, what it returned and the from_pretrained calls it
\* made; the images handed to process_image_with_model and how each call
\* ended; all_text of process_pdf; whether the model was run.
ObsFields ==
  {"loadCalled", "model_loaded", "attempts", "calls", "hows", "all_text", "ran"}

NoObs == [f \in ObsFields |-> Untouched(NoModel, "None", 0, NoFile)[f]]

Init ==
  /\ model = NoModel
  /\ tokenizer = "None"
  /\ loads = 0
  /\ tempFile = NoFile
  /\ pc = "idle"
  /\ job = NoJob
  /\ result = NoResult
  /\ escaped = FALSE
  /\ obs = NoObs
  /\ modelBefore = NoModel
  /\ loadedBefore = FALSE
  /\ threads = <<>>
  /\ hist = <<>>

\* The number of inferences a job can ask for: one for each page of its PDF
\* that needs OCR, one for an image job.
NCalls(j) ==
  LET inp == JobInput(j)
  IN  IF ~IsMapping(inp) THEN 0
      ELSE IF Has(inp, "pdf")
      THEN IF inp.pdf.padded /\ inp.pdf.bytes.kind = "pdf"
           THEN Cardinality({ k \in DOMAIN inp.pdf.bytes.doc.pages :
                                NeedsOcr(inp.pdf.bytes.doc.pages[k]) })
           ELSE 0
      ELSE IF Has(inp, "image") THEN 1
      ELSE 0

\* The load scenarios that differ for a call of load_model on handle m.
Scenarios(m) == IF m = NoModel THEN LoadScenarios ELSE {AllSucceed}

\* The runtime takes a job from the queue and calls handler with it.
Receive(j) ==
  /\ pc = "idle"
  /\ pc' = "running"
  /\ job' = j
  /\ UNCHANGED <<model, tokenizer, loads, tempFile, result, escaped, obs,
                 modelBefore, loadedBefore, threads, hist>>

\* handler(job) runs to its return.
Handler ==
  /\ pc = "running"
  /\ \E sc \in Scenarios(model) :
       \E outs \in [1..NCalls(job) -> InferOutcomes] :
         \E r \in {handler(job, model, tokenizer, loads, tempFile, sc, outs)} :
           /\ model' = r.model
           /\ tokenizer' = r.tokenizer
           /\ loads' = r.loads
           /\ tempFile' = r.file
           /\ escaped' = r.exc
           /\ result' = IF r.exc THEN NoResult ELSE r.value
           /\ obs' = [f \in ObsFields |-> r[f]]
  /\ modelBefore' = model
  /\ pc' = "done"
  /\ UNCHANGED <<job, loadedBefore, threads, hist>>

\* The runtime posts the result and is ready for the next job.
Deliver ==
  /\ pc = "done"
  /\ pc' = "idle"
  /\ job' = NoJob
  /\ result' = NoResult
  /\ escaped' = FALSE
  /\ obs' = NoObs
  /\ modelBefore' = NoModel
  /\ loadedBefore' = (loadedBefore \/ obs.loadCalled)
  /\ UNCHANGED <<model, tokenizer, loads, tempFile, threads, hist>>

Next ==
  \/ \E j \in Jobs : Receive(j)
  \/ Handler
  \/ Deliver

Spec == Init /\ [][Next]_vars

\* ------------------------------------------ concurrent handler invocations

\* The two handler invocations that run at the same time in one process.
Threads == {1, 2}

\* The jobs of the concurrent invocations: image jobs whose image decodes.
ConcJobs ==
  { [id |-> "job", input |-> [image |-> B64(TRUE, TRUE, PngBytes(img))]] :
      img \in {Img1, Img2} }

NoImage == [id |-> "none"]

\* The locals of an invocation that has not begun: its position, its job,
\* the decoded image, model_loaded, the instance its load_model call
\* created, whether its load_model call found the handle None, the stage
\* at which its inference raised, the file model.chat read, the text
\* process_image_with_model returned and the mapping handler returned.
Idle ==
  [pc |-> "idle", job |-> NoJob, image |-> NoImage, model_loaded |-> FALSE,
   mine |-> NoModel, sawNone |-> FALSE, stage |-> "ok", read |-> NoFile,
   text |-> "", result |-> NoResult]

\* The positions inside the guarded block of load_model (lines 25-55).
InLoad == {"tok", "mod", "eval", "proc", "mod2", "tok2"}

InitConc ==
  /\ model = NoModel
  /\ tokenizer = "None"
  /\ loads = 0
  /\ tempFile = NoFile
  /\ pc = "idle"
  /\ job = NoJob
  /\ result = NoResult
  /\ escaped = FALSE
  /\ obs = NoObs
  /\ modelBefore = NoModel
  /\ loadedBefore = FALSE
  /\ threads = [t \in Threads |-> Idle]
  /\ hist = [raced |-> FALSE, dup |-> FALSE, saved |-> FALSE]

\* What the single worker of Spec uses: the concurrent invocations leave it.
Sequential ==
  <<pc, job, result, escaped, obs, modelBefore, loadedBefore>>

\* Invocation t goes on with locals l.
Goes(t, l) == threads' = [threads EXCEPT ![t] = l]

\* The runtime calls handler(j) in invocation t; a job with 'image' alone
\* is not an echo and reaches the call of load_model (lines 137-146).
Start(t, j) ==
  /\ threads[t].pc = "idle"
  /\ Goes(t, [Idle EXCEPT !.pc = "guard", !.job = j])
  /\ UNCHANGED <<model, tokenizer, loads, tempFile, hist, Sequential>>

\* `if model is None:` (line 24); with the handle set load_model returns
\* True (line 56).
Guard(t) ==
  /\ threads[t].pc = "guard"
  /\ IF NeedsLoad(model)
     THEN /\ Goes(t, [threads[t] EXCEPT !.pc = "tok", !.sawNone = TRUE])
          /\ hist' = [hist EXCEPT !.raced =
                        @ \/ \E u \in Threads \ {t} : threads[u].pc \in InLoad]
     ELSE /\ Goes(t, [threads[t] EXCEPT !.pc = "branch", !.model_loaded = TRUE])
          /\ UNCHANGED hist
  /\ UNCHANGED <<model, tokenizer, loads, tempFile, Sequential>>

\* tokenizer = AutoTokenizer.from_pretrained(...) (line 30)
LoadTokenizer(t) ==
  /\ threads[t].pc = "tok"
  /\ \E ok \in BOOLEAN :
       IF ok
       THEN /\ tokenizer' = "GOTTokenizer"
            /\ Goes(t, [threads[t] EXCEPT !.pc = "mod"])
       ELSE /\ UNCHANGED tokenizer
            /\ Goes(t, [threads[t] EXCEPT !.pc = "proc"])
  /\ UNCHANGED <<model, loads, tempFile, hist, Sequential>>

\* model = AutoModel.from_pretrained(...) (lines 31-37)
LoadModel(t) ==
  /\ threads[t].pc = "mod"
  /\ \E ok \in BOOLEAN :
       IF ok
       THEN \E m \in {[kind |-> "GOT", id |-> loads + 1]} :
              /\ model' = m
              /\ loads' = loads + 1
              /\ hist' = [hist EXCEPT !.dup = @ \/ model # NoModel]
              /\ Goes(t, [threads[t] EXCEPT !.pc = "eval", !.mine = m])
       ELSE /\ UNCHANGED <<model, loads, hist>>
            /\ Goes(t, [threads[t] EXCEPT !.pc = "proc"])
  /\ UNCHANGED <<tokenizer, tempFile, Sequential>>

\* model.eval() and `return True` (lines 38-40)
Eval(t) ==
  /\ threads[t].pc = "eval"
  /\ \E ok \in BOOLEAN :
       IF ok
       THEN Goes(t, [threads[t] EXCEPT !.pc = "branch", !.model_loaded = TRUE])
       ELSE Goes(t, [threads[t] EXCEPT !.pc = "proc"])
  /\ UNCHANGED <<model, tokenizer, loads, tempFile, hist, Sequential>>

\* processor = TrOCRProcessor.from_pretrained(...) (line 48); `return False`
\* when it raises (line 55).
LoadProcessor(t) ==
  /\ threads[t].pc = "proc"
  /\ \E ok \in BOOLEAN :
       IF ok
       THEN Goes(t, [threads[t] EXCEPT !.pc = "mod2"])
       ELSE Goes(t, [threads[t] EXCEPT !.pc = "branch", !.model_loaded = FALSE])
  /\ UNCHANGED <<model, tokenizer, loads, tempFile, hist, Sequential>>

\* model = VisionEncoderDecoderModel.from_pretrained(...) (line 49)
LoadModel2(t) ==
  /\ threads[t].pc = "mod2"
  /\ \E ok \in BOOLEAN :
       IF ok
       THEN \E m \in {[kind |-> "TrOCR", id |-> loads + 1]} :
              /\ model' = m
              /\ loads' = loads + 1
              /\ hist' = [hist EXCEPT !.dup =
                            @ \/ (model # NoModel /\ model # threads[t].mine)]
              /\ Goes(t, [threads[t] EXCEPT !.pc = "tok2", !.mine = m])
       ELSE /\ UNCHANGED <<model, loads, hist>>
            /\ Goes(t, [threads[t] EXCEPT !.pc = "branch", !.model_loaded = FALSE])
  /\ UNCHANGED <<tokenizer, tempFile, Sequential>>

\* tokenizer = processor and `return True` (lines 50-52)
SetProcessor(t) ==
  /\ threads[t].pc = "tok2"
  /\ tokenizer' = "TrOCRProcessor"
  /\ Goes(t, [threads[t] EXCEPT !.pc = "branch", !.model_loaded = TRUE])
  /\ UNCHANGED <<model, loads, tempFile, hist, Sequential>>

\* The image branch up to `if model_loaded:` (lines 168-175); without a
\* loaded model handler returns the image's size and mode (lines 185-193).
Branch(t) ==
  /\ threads[t].pc = "branch"
  /\ \E image \in
         {ImageOpen(b64decode(Subscript(JobInput(threads[t].job), "image").val).val).val} :
       IF threads[t].model_loaded
       THEN Goes(t, [threads[t] EXCEPT !.pc = "save", !.image = image])
       ELSE Goes(t, [threads[t] EXCEPT
                       !.pc = "done", !.image = image,
                       !.result =
                         [output |->
                            [type |-> "image",
                             message |-> "Model still loading, returning image info only",
                             image_size |-> image.size,
                             image_mode |-> image.mode]]])
  /\ UNCHANGED <<model, tokenizer, loads, tempFile, hist, Sequential>>

\* process_image_with_model up to image.save(temp_path) (lines 97-102):
\* every invocation writes the one path.
Save(t) ==
  /\ threads[t].pc = "save"
  /\ IF model = NoModel
     THEN /\ Goes(t, [threads[t] EXCEPT !.pc = "ret", !.text = "Model not loaded"])
          /\ UNCHANGED <<tempFile, hist>>
     ELSE \E ok \in BOOLEAN :
            IF ok
            THEN /\ tempFile' = threads[t].image
                 /\ hist' = [hist EXCEPT !.saved = TRUE]
                 /\ Goes(t, [threads[t] EXCEPT !.pc = "infer"])
            ELSE /\ tempFile' = PartialFile
                 /\ UNCHANGED hist
                 /\ Goes(t, [threads[t] EXCEPT !.pc = "except", !.stage = "write"])
  /\ UNCHANGED <<model, tokenizer, loads, Sequential>>

\* The inference (lines 105-118): model.chat is given temp_path and reads
\* what the file holds when it runs.
Infer(t) ==
  /\ threads[t].pc = "infer"
  /\ \E ok \in BOOLEAN :
       IF ok
       THEN Goes(t, [threads[t] EXCEPT
                       !.pc = "ret",
                       !.read = IF HasChat(model) THEN tempFile ELSE NoFile,
                       !.text = Recognize(model, tempFile, threads[t].image)])
       ELSE Goes(t, [threads[t] EXCEPT !.pc = "except", !.stage = "infer"])
  /\ UNCHANGED <<model, tokenizer, loads, tempFile, hist, Sequential>>

\* The except branch of process_image_with_model (lines 120-128)
Except(t) ==
  /\ threads[t].pc = "except"
  /\ \E tess \in BOOLEAN :
       Goes(t, [threads[t] EXCEPT
                  !.pc = "ret",
                  !.text = BasicOcr(threads[t].image,
                                    [stage |-> threads[t].stage, tess |-> tess])])
  /\ UNCHANGED <<model, tokenizer, loads, tempFile, hist, Sequential>>

\* handler builds and returns the result (lines 177-183 and 193); nothing
\* removes the file at temp_path.
ReturnImage(t) ==
  /\ threads[t].pc = "ret"
  /\ Goes(t, [threads[t] EXCEPT
                !.pc = "done",
                !.result =
                  [output |->
                     [type |-> "image",
                      text |-> threads[t].text,
                      image_size |-> threads[t].image.size,
                      model_used |-> ImageModelUsed(model)]]])
  /\ UNCHANGED <<model, tokenizer, loads, tempFile, hist, Sequential>>

\* The runtime posts the result; the invocation can take the next job.
Finish(t) ==
  /\ threads[t].pc = "done"
  /\ Goes(t, Idle)
  /\ UNCHANGED <<model, tokenizer, loads, tempFile, hist, Sequential>>

NextConc ==
  \E t \in Threads :
    \/ \E j \in ConcJobs : Start(t, j)
    \/ Guard(t)
    \/ LoadTokenizer(t)
    \/ LoadModel(t)
    \/ Eval(t)
    \/ LoadProcessor(t)
    \/ LoadModel2(t)
    \/ SetProcessor(t)
    \/ Branch(t)
    \/ Save(t)
    \/ Infer(t)
    \/ Except(t)
    \/ ReturnImage(t)
    \/ Finish(t)

SpecConc == InitConc /\ [][NextConc]_vars

\* ------------------------------------------------------------------- claims

\* The mapping under "input" of the job the last handler call was given.
inp == JobInput(job)

Done == pc = "done"

IsErrorResult == DOMAIN result = {"error"}

IsOutputResult == DOMAIN result = {"output"}

\* The job carries key k (its input being a mapping).
Carries(k) == "py" \notin DOMAIN inp /\ k \in DOMAIN inp

\* C1: whatever the job and whatever the libraries do, handler returns a
\* mapping with exactly one of the keys 'output' and 'error', and no
\* exception leaves it.
C1_HandlerTotal ==
  Done => ~escaped /\ (IsOutputResult \/ IsErrorResult)

\* C1 witness: a job whose input is None, which raises inside handler's try
\* block, was answered with an {error} mapping.
C1_Witness ==
  Done /\ inp = PyNone /\ ~escaped /\ IsErrorResult

\* C2: a job with 'prompt' and neither 'image' nor 'pdf' is answered with
\* exactly {output: "Echo test: " + prompt}, whatever the model handle is.
C2_EchoResult ==
  (Done /\ Carries("prompt") /\ ~Carries("image") /\ ~Carries("pdf"))
    => result = [output |-> "Echo test: " \o inp.prompt]

\* C2 witness: an echo job was answered while the model handle was set.
C2_Witness ==
  /\ Done /\ Carries("prompt") /\ ~Carries("image") /\ ~Carries("pdf")
  /\ modelBefore # NoModel
  /\ result = [output |-> "Echo test: hi"]

\* C3 as stated: a job with invalid base64 under 'image' is answered with an
\* {error} mapping, whatever other keys it carries.
C3_InvalidImageIsError ==
  (Done /\ Carries("image") /\ ~(inp.image.padded /\ inp.image.clean))
    => ~escaped /\ IsErrorResult

\* C3 amended: a job without 'pdf' whose 'image' value b64decode rejects, or
\* decodes to bytes that are no image, is answered with an {error} mapping
\* and no exception leaves handler, with or without 'prompt' and whatever
\* load_model returned.
C3_UndecodableImageIsError ==
  (Done /\ Carries("image") /\ ~Carries("pdf")
        /\ (~inp.image.padded \/ inp.image.bytes.kind # "png"))
    => ~escaped /\ IsErrorResult

\* C3 witness: a job with 'prompt' and a wrongly padded 'image' got an
\* {error} mapping from a handler call in which the model was loaded.
C3_Witness ==
  /\ Done /\ Carries("image") /\ ~Carries("pdf") /\ Carries("prompt")
  /\ ~inp.image.padded
  /\ obs.model_loaded
  /\ IsErrorResult

\* The document of a job whose 'pdf' value decodes to a PDF that opens.
HasDoc == Carries("pdf") /\ inp.pdf.padded /\ inp.pdf.bytes.kind = "pdf"

doc == inp.pdf.bytes.doc

\* C4 as stated: a job whose 'pdf' value is malformed (invalid base64, or
\* bytes that do not open or do not render as a PDF) is answered with an
\* {error} mapping, not an {output} mapping.
C4_MalformedPdfIsError ==
  (Done /\ Carries("pdf")
        /\ (~(inp.pdf.padded /\ inp.pdf.clean) \/ inp.pdf.bytes.kind # "pdf"
              \/ doc.bad > 0))
    => IsErrorResult

\* An image job: one that reaches the image branch of handler.
ImageJob == Carries("image") /\ ~Carries("pdf")

\* C5 as stated: when inference on the image of a job raises and the
\* pytesseract fallback fails too, the job is answered with an {error}
\* mapping, not an {output} mapping.
C5_FailedOcrIsError ==
  (Done /\ ImageJob /\ obs.ran /\ obs.hows = <<"failed">>) => IsErrorResult

\* C6 as stated: a call of load_model that is not the first of the process
\* attempts no load and leaves the model handle as it was, whatever the
\* earlier calls did.
C6_SecondLoadIsNoOp ==
  (Done /\ obs.loadCalled /\ loadedBefore)
    => obs.attempts = <<>> /\ model = modelBefore

\* C6 amended: a call of load_model made when the handle is set (an earlier
\* call created a model instance) attempts no load, returns True and leaves
\* the handle on the same instance.
C6_LoadedIsNoOp ==
  (Done /\ obs.loadCalled /\ loadedBefore /\ modelBefore # NoModel)
    => obs.attempts = <<>> /\ obs.model_loaded /\ model = modelBefore

\* C6 witness: load_model was called again by a later job with the handle
\* set, and did nothing.
C6_Witness ==
  /\ Done /\ obs.loadCalled /\ loadedBefore /\ modelBefore # NoModel
  /\ obs.attempts = <<>> /\ model = modelBefore

\* The entries of all_text that page k contributed.
EntriesOf(k) ==
  SelectSeq(obs.all_text, LAMBDA e : e.page = k)

\* all_text lists the pages in ascending order.
Ascending ==
  \A i \in 1..(Len(obs.all_text) - 1) :
    obs.all_text[i].page <= obs.all_text[i + 1].page

\* The text of the PDF result is all_text joined in order.
TextIsJoined ==
  /\ IsOutputResult
  /\ result.output.text =
       Join("\n\n", [i \in 1..Len(obs.all_text) |-> EntryStr(obs.all_text[i])])

\* Page k of the document has fewer than OcrThreshold characters of text.
ShortPage(k) == Len(Strip(doc.pages[k])) < OcrThreshold

\* A PDF job whose document opens and whose pages all load.
PdfJob == HasDoc /\ doc.bad = 0

\* C7 as stated: in a PDF job (handled with the model handle set) a page
\* with fewer than 50 characters of text contributes its OCR text and
\* nothing else, a page with at least 50 contributes its extracted text and
\* nothing else, in ascending page order.
C7_ShortPagesOnlyOcr ==
  (Done /\ PdfJob /\ model # NoModel) =>
    /\ Ascending
    /\ \A k \in 1..Len(doc.pages) :
         /\ Len(EntriesOf(k)) = 1
         /\ ShortPage(k) => EntriesOf(k)[1].kind = "ocr"
         /\ ~ShortPage(k) => EntriesOf(k)[1] = TextEntry(k, doc.pages[k])

\* The j-th image handed to process_image_with_model is the rendering of
\* the j-th short page, and the j-th OCR entry is that page's.
OcrFollowsCalls ==
  LET short == SelectSeq([k \in 1..Len(doc.pages) |-> k], ShortPage)
      ocr == SelectSeq(obs.all_text, LAMBDA e : e.kind = "ocr")
  IN  /\ Len(obs.calls) = Len(ocr)
      /\ Len(ocr) = IF model = NoModel THEN 0 ELSE Len(short)
      /\ \A j \in 1..Len(ocr) :
           ocr[j].page = short[j] /\ obs.calls[j] = RenderPage(short[j])

\* C7 amended: in a PDF job whose pages all load, a page with at least 50
\* characters contributes its extracted text and nothing else; a page with
\* fewer contributes its extracted text when that is not blank, followed,
\* when the model handle is set, by what process_image_with_model returns
\* for the rendered page (and by nothing from OCR when the handle is None);
\* the contributions are joined in ascending page order.
C7_ShortPagesAlsoOcr ==
  (Done /\ PdfJob) =>
    /\ Ascending
    /\ TextIsJoined
    /\ OcrFollowsCalls
    /\ \A k \in 1..Len(doc.pages) :
         LET E == EntriesOf(k)
             text == IF Strip(doc.pages[k]) = "" THEN <<>>
                     ELSE <<TextEntry(k, doc.pages[k])>>
         IN  /\ ~ShortPage(k) => E = text
             /\ (ShortPage(k) /\ model = NoModel) => E = text
             /\ (ShortPage(k) /\ model # NoModel) =>
                  /\ Len(E) = Len(text) + 1
                  /\ SubSeq(E, 1, Len(text)) = text
                  /\ E[Len(E)].kind = "ocr"

\* C7 witness: a two-page PDF with a long page before a 49-character page
\* was processed with the model: the short page gave a text entry and an
\* OCR entry, after the long page's text entry.
C7_Witness ==
  /\ Done /\ PdfJob /\ model # NoModel
  /\ doc.pages = <<Text50, Text49>>
  /\ Len(obs.all_text) = 3
  /\ obs.all_text[3].kind = "ocr" /\ obs.all_text[3].page = 2
  /\ obs.hows = <<"model">>

\* C8: in a PDF job all of whose pages have at least 50 characters of text
\* once stripped, process_image_with_model is never called, and the text
\* returned for each page is its extracted text.
C8_LongPagesNoInference ==
  (Done /\ HasDoc /\ \A k \in 1..Len(doc.pages) : Len(Strip(doc.pages[k])) >= OcrThreshold)
    => /\ obs.calls = <<>>
       /\ ~obs.ran
       /\ doc.bad = 0 =>
            /\ obs.all_text = [k \in 1..Len(doc.pages) |-> TextEntry(k, doc.pages[k])]
            /\ TextIsJoined

\* C8 witness: a PDF of two 50-character pages was processed with the model
\* handle set, and gave two text entries.
C8_Witness ==
  /\ Done /\ PdfJob /\ model # NoModel
  /\ doc.pages = <<Text50, Text50>>
  /\ Len(obs.all_text) = 2
  /\ obs.calls = <<>>

C10_ModelUsedNamesModel ==
  (Done /\ ImageJob /\ IsOutputResult /\ obs.calls # <<>>) =>
    /\ model.kind = "GOT" => result.output.model_used = "GOT-OCR2"
    /\ model.kind = "TrOCR" => result.output.model_used = "TrOCR"

\* C11: the guard of load_model does not give load-once under concurrent
\* first calls.  Every invocation that created a model instance had passed
\* the `model is None` check, and an instance another invocation created is
\* replaced only when two invocations were inside the guarded block at the
\* same time; the witness is the interleaving in which both invocations
\* passed the check and each loaded the model.
C11_ReloadOnlyByRace ==
  /\ hist.dup => hist.raced
  /\ \A t \in Threads : threads[t].mine # NoModel => threads[t].sawNone

\* Both invocations found the handle None, each created an instance of the
\* primary model, and the second assignment replaced the first's instance.
C11_Witness ==
  /\ hist.dup
  /\ loads >= 2
  /\ \A t \in Threads : threads[t].sawNone /\ threads[t].mine.kind = "GOT"
  /\ \E t \in Threads : threads[t].mine # model

\* C12: every job's image is written to the one fixed path, which is never
\* deleted.  The text a job gets on the file-path branch is the text of what
\* the file held when its inference ran, whichever job wrote it, and once a
\* job has reached inference the file exists; the witness is the
\* interleaving in which a job's text comes from the other job's image.
C12_TextIsOfTheFileRead ==
  /\ \A t \in Threads :
       (threads[t].pc \in {"ret", "done"} /\ threads[t].read # NoFile) =>
         /\ threads[t].text = "got:" \o threads[t].read.id
         /\ threads[t].read \in {Img1, Img2, PartialFile}
  /\ hist.saved => tempFile # NoFile

\* The job of Img1 is answered with the text of Img2, which the other
\* invocation saved over it before the inference read the file; the file is
\* still there.
C12_Witness ==
  \E t \in Threads :
    /\ threads[t].pc = "done"
    /\ threads[t].image = Img1
    /\ threads[t].read = Img2
    /\ threads[t].result.output.text = "got:img2"
    /\ \E u \in Threads \ {t} :
         threads[u].image = Img2 /\ threads[u].pc \in {"infer", "except", "ret", "done"}
    /\ tempFile # NoFile

====
